---- MODULE Spec2Model ----
(***************************************************************************)
(* A model of the token lifecycle and concurrency coordinator of spotokn:  *)
(* the MutexLock (utils/mutex), the Spotify token service                  *)
(* (services/spotify), the TokenTracker and the LavaSrcTracker.            *)
(*                                                                         *)
(* JavaScript runs one callback at a time, so every action below is one    *)
(* run-to-completion step: the synchronous code between two suspension     *)
(* points (an await on a timer, on the Fetcher or on a held lock).         *)
(***************************************************************************)
EXTENDS Integers, Sequences, FiniteSets, TLC

(***************************************************************************)
(* Bounds of the model.                                                    *)
(***************************************************************************)
NumCallers == 3      \* withLock calls made on the mutex
MaxTime == 7         \* the mutex clock stops here (units of 15 s)
NumReqs == 2         \* requests made to the token service
NumCookies == 2      \* distinct sp_dc cookie values
MaxClock == 2        \* the service clock stops here (units of 5 min)
MaxFetches == 3      \* Fetcher calls made in one run
MaxLifetime == 2     \* longest lifetime of a fetched token (units of 5 min)
NumOldKeys == 1      \* keys of a full cache that later calls name again
NumNewKeys == 1      \* keys stored in a cache beyond those it starts with
NumHandles == 2      \* TokenController.handle calls made in one run

(***************************************************************************)
(* MutexLock's constructor defaults (30000 ms, 60000 ms), counted in units *)
(* of 15 s.                                                                *)
(***************************************************************************)
maxWaitTime == 2
lockTimeout == 4

(***************************************************************************)
(* The service's times, counted in units of 5 min: the 5-minute validity   *)
(* buffer of isTokenValid and of the trackers, the proactive refresh       *)
(* buffer (300000 ms) and the cache timeout (3600000 ms).                  *)
(***************************************************************************)
bufferTime == 1
refreshBufferMs == 1
proactiveRefreshBuffer == 1
cacheTimeout == 12
defaultCacheTime == 12   \* TokenController's one-hour default (3600000 ms)
maxCacheSize == 100

VARIABLES
    now,               \* Date.now()
    \* ---- MutexLock
    isLocked,          \* MutexLock.isLocked
    pendingResolvers,  \* MutexLock.pendingResolvers: the queued closures
    lockStartTime,     \* MutexLock.lockStartTime
    timers,            \* the setTimeout timers of lock() that are armed
    pc,                \* where each withLock call stands
    releaseCb,         \* the release callback lock() resolved each caller with
    calledAt,          \* history: the time of each caller's lock() call
    startOrder,        \* history: callers in the order their bodies started
    doneOrder,         \* history: callers in the order their bodies ended
    \* ---- Spotify, its TokenTracker, and the LavaSrcTracker in front of it
    serviceState,      \* Spotify.serviceState
    anonymousToken,    \* Spotify.anonymousToken
    authenticatedToken,\* Spotify.authenticatedToken
    isRefreshing,      \* Spotify.isRefreshing
    errorCount,        \* Spotify.errorCount
    schedulerTimer,    \* how many checkAndRefresh timers are pending
    tokenTracker,      \* Spotify.tokenTracker: [tokens, refreshTimers]
    lavaSrc,           \* the LavaSrcTracker: [tokens, refreshTimers]
    th,                \* the async calls: startup, scheduler tick, requests
    cleanupPc,         \* where cleanup() stands
    fetchSeq,          \* history: number of browser.getToken calls started
    fetchedOk,         \* history: the anonymous refreshes that stored a token
    lastTick,          \* history: the scheduler tick just fired, if any
    \* ---- a TokenTracker and a LavaSrcTracker called on their own
    got,               \* the TokenTracker.getToken call just made, if any
    \* ---- TokenController
    controllerErrorCount, \* TokenController.errorCount
    requestCount,      \* TokenController.requestCount
    tokenCache,        \* TokenController.tokenCache: key -> [token, expires]
    rq,                \* the handle() calls: where each stands, what it got
    \* ---- SpotifyBrowser, around its launch mutex
    isConnected,       \* SpotifyBrowser.browser, .context and .isConnected
    phase,             \* where the body of each launch() stands
    parent             \* history: the launch() whose body made this call

mutexOnly == <<isLocked, pendingResolvers, lockStartTime, timers, pc,
               releaseCb, calledAt, startOrder, doneOrder>>
serviceOnly == <<serviceState, anonymousToken, authenticatedToken,
                 isRefreshing, errorCount, schedulerTimer, tokenTracker,
                 lavaSrc, th, cleanupPc, fetchSeq, fetchedOk, lastTick>>
cacheOnly == <<got>>
controllerOnly == <<controllerErrorCount, requestCount, tokenCache, rq>>
browserOnly == <<isConnected, phase, parent>>
vars == <<now, mutexOnly, serviceOnly, cacheOnly, controllerOnly, browserOnly>>

Callers == 1..NumCallers

(***************************************************************************)
(* The closures lock() creates for caller c: the promise's resolve         *)
(* function, and the wrapper (releaseCallback) => {clearTimeout; resolve}  *)
(* that is what lock() pushes on pendingResolvers.                         *)
(***************************************************************************)
ResolveFn(c) == [fn |-> "resolve", of |-> c]
Wrapper(c) == [fn |-> "wrapper", of |-> c]

WaitTimer(c, due) == [kind |-> "wait", of |-> c, due |-> due]
HoldTimer(c, due) == [kind |-> "hold", of |-> c, due |-> due]

clearTimeout(ts, kind, c) == {t \in ts : ~(t.kind = kind /\ t.of = c)}

\* Array.prototype.indexOf: the 0-based index of the first element equal to x, or -1
indexOf(arr, x) ==
    IF \E i \in 1..Len(arr) : arr[i] = x
    THEN (CHOOSE i \in 1..Len(arr) :
              arr[i] = x /\ \A j \in 1..(i - 1) : arr[j] # x) - 1
    ELSE -1

\* Array.prototype.splice(index, 1): the array without its element at 0-based index
splice(arr, index) ==
    [i \in 1..(Len(arr) - 1) |-> IF i <= index THEN arr[i] ELSE arr[i + 1]]

MutexInit ==
    /\ isLocked = FALSE
    /\ pendingResolvers = <<>>
    /\ lockStartTime = 0
    /\ timers = {}
    /\ pc = [c \in Callers |-> "idle"]
    /\ releaseCb = [c \in Callers |-> "none"]
    /\ calledAt = [c \in Callers |-> 0]
    /\ startOrder = <<>>
    /\ doneOrder = <<>>

(***************************************************************************)
(* withLock(fn) called by c: lock() runs synchronously.  On a held mutex   *)
(* the caller is queued behind a wait timer; on a free one it takes the    *)
(* lock, arms the hold timer and its body starts.  Callers are numbered in *)
(* the order they call.                                                    *)
(***************************************************************************)
lock(c) ==
    /\ pc[c] = "idle"
    /\ \A d \in Callers : d < c => pc[d] # "idle"
    /\ IF isLocked
       THEN /\ timers' = timers \cup {WaitTimer(c, now + maxWaitTime)}
            /\ pendingResolvers' = Append(pendingResolvers, Wrapper(c))
            /\ pc' = [pc EXCEPT ![c] = "waiting"]
            /\ UNCHANGED <<isLocked, lockStartTime, releaseCb, startOrder>>
       ELSE /\ isLocked' = TRUE
            /\ lockStartTime' = now
            /\ timers' = timers \cup {HoldTimer(c, now + lockTimeout)}
            /\ releaseCb' = [releaseCb EXCEPT ![c] = "timed"]
            /\ pc' = [pc EXCEPT ![c] = "running"]
            /\ startOrder' = Append(startOrder, c)
            /\ UNCHANGED pendingResolvers
    /\ calledAt' = [calledAt EXCEPT ![c] = now]
    /\ UNCHANGED <<now, doneOrder, serviceOnly, cacheOnly, controllerOnly,
                   browserOnly>>

(***************************************************************************)
(* The wait timer of c fires: the callback looks its resolve function up   *)
(* in pendingResolvers, splices it out when found, and rejects the         *)
(* promise.                                                                *)
(***************************************************************************)
waitTimeout(c) ==
    /\ \E t \in timers : t.kind = "wait" /\ t.of = c /\ t.due <= now
    /\ timers' = clearTimeout(timers, "wait", c)
    /\ LET index == indexOf(pendingResolvers, ResolveFn(c))
       IN  pendingResolvers' = IF index > -1
                               THEN splice(pendingResolvers, index)
                               ELSE pendingResolvers
    /\ pc' = [pc EXCEPT ![c] = IF pc[c] = "waiting" THEN "timedout" ELSE pc[c]]
    /\ UNCHANGED <<now, isLocked, lockStartTime, releaseCb, calledAt,
                   startOrder, doneOrder, serviceOnly, cacheOnly, controllerOnly,
                   browserOnly>>

\* The mutable fields of the mutex and of its callers, as one record
Here ==
    [isLocked |-> isLocked, lockStartTime |-> lockStartTime,
     pendingResolvers |-> pendingResolvers, timers |-> timers, pc |-> pc,
     releaseCb |-> releaseCb, startOrder |-> startOrder]

\* resolve as it would be if a promise that was rejected could still be
\* resolved: the timed-out waiter continues withLock and runs its body
resolveRejected(m, d, callback) ==
    [m EXCEPT !.timers = clearTimeout(m.timers, "wait", d),
              !.pc[d] = "running",
              !.releaseCb[d] = callback,
              !.startOrder = Append(m.startOrder, d)]

\* A release callback is handed to the promise of lock() of caller d: the
\* wrapper clears d's wait timer and resolves; a promise that was rejected
\* stays rejected, a pending one continues withLock and starts the body.
resolve(m, d, callback) ==
    IF m.pc[d] = "waiting"
    THEN [m EXCEPT !.timers = clearTimeout(m.timers, "wait", d),
                   !.pc[d] = "running",
                   !.releaseCb[d] = callback,
                   !.startOrder = Append(m.startOrder, d)]
    ELSE [m EXCEPT !.timers = clearTimeout(m.timers, "wait", d)]

(***************************************************************************)
(* The callback that release(timeout) returned to c, called on mutex m.    *)
(* lock() hands out release(lockTimeout) ("timed"), a hand-off hands out   *)
(* release() ("plain") and forceRelease hands out () => {} ("noop").       *)
(***************************************************************************)
release(m, c) ==
    LET m1 == IF m.releaseCb[c] = "timed"
              THEN [m EXCEPT !.timers = clearTimeout(m.timers, "hold", c)]
              ELSE m
    IN  IF m.releaseCb[c] = "noop" THEN m
        ELSE IF m1.pendingResolvers # <<>>
        THEN resolve([m1 EXCEPT !.pendingResolvers = Tail(m1.pendingResolvers)],
                     Head(m1.pendingResolvers).of, "plain")
        ELSE [m1 EXCEPT !.isLocked = FALSE, !.lockStartTime = 0]

RECURSIVE resolveAll(_, _)
resolveAll(m, callback) ==
    IF m.pendingResolvers = <<>> THEN m
    ELSE resolveAll(resolve([m EXCEPT !.pendingResolvers = Tail(m.pendingResolvers)],
                            Head(m.pendingResolvers).of, callback),
                    callback)

\* forceRelease(): unlock, then shift every pending resolver and call it
\* with a no-op release function
forceRelease(m) ==
    resolveAll([m EXCEPT !.isLocked = FALSE, !.lockStartTime = 0], "noop")

Install(m) ==
    /\ isLocked' = m.isLocked
    /\ lockStartTime' = m.lockStartTime
    /\ pendingResolvers' = m.pendingResolvers
    /\ timers' = m.timers
    /\ pc' = m.pc
    /\ releaseCb' = m.releaseCb
    /\ startOrder' = m.startOrder

(***************************************************************************)
(* The body of c's withLock ends, by returning or by throwing; the finally *)
(* block calls the release callback, then the result or the error reaches  *)
(* the caller.                                                             *)
(***************************************************************************)
bodyReturns(c) ==
    /\ pc[c] = "running"
    /\ Install([release(Here, c) EXCEPT !.pc[c] = "returned"])
    /\ doneOrder' = Append(doneOrder, c)
    /\ UNCHANGED <<now, calledAt, serviceOnly, cacheOnly, controllerOnly,
                   browserOnly>>

bodyThrows(c) ==
    /\ pc[c] = "running"
    /\ Install([release(Here, c) EXCEPT !.pc[c] = "threw"])
    /\ doneOrder' = Append(doneOrder, c)
    /\ UNCHANGED <<now, calledAt, serviceOnly, cacheOnly, controllerOnly,
                   browserOnly>>

(***************************************************************************)
(* The hold timer that lock() armed for c fires: if the mutex is locked it *)
(* is force-released.                                                      *)
(***************************************************************************)
holdTimeout(c) ==
    /\ \E t \in timers : t.kind = "hold" /\ t.of = c /\ t.due <= now
    /\ LET m == [Here EXCEPT !.timers = clearTimeout(timers, "hold", c)]
       IN  Install(IF isLocked THEN forceRelease(m) ELSE m)
    /\ UNCHANGED <<now, calledAt, doneOrder, serviceOnly, cacheOnly, controllerOnly,
                   browserOnly>>

\* Time passes; a timer that is due fires before the clock moves on.
tick ==
    /\ now < MaxTime
    /\ \A t \in timers : t.due > now
    /\ now' = now + 1
    /\ UNCHANGED <<mutexOnly, serviceOnly, cacheOnly, controllerOnly,
                   browserOnly>>

\* isLockedNow() and getPendingCount()
isLockedNow == isLocked
getPendingCount == Len(pendingResolvers)

Running == {c \in Callers : pc[c] = "running"}
Increasing(seq) == \A i, j \in 1..Len(seq) : i < j => seq[i] < seq[j]
InSeq(seq, x) == \E i \in 1..Len(seq) : seq[i] = x

(***************************************************************************)
(* C7: at no time are two withLock bodies of one MutexLock executing.      *)
(***************************************************************************)
C7_MutualExclusion == Cardinality(Running) <= 1

(***************************************************************************)
(* C8: callers are granted the lock in the order of their lock() calls:    *)
(* the bodies start in arrival order and complete in arrival order.        *)
(* Callers are numbered in arrival order.                                  *)
(***************************************************************************)
C8_FifoStartAndComplete == Increasing(startOrder) /\ Increasing(doneOrder)

\* the part of C8 the code keeps: bodies start in arrival order
C8_StartsInArrivalOrder == Increasing(startOrder)

(***************************************************************************)
(* C9: a caller that waits longer than maxWaitTime fails with the timeout  *)
(* error and its body never runs (no caller is still waiting past          *)
(* maxWaitTime, a timed-out caller never started and stays timed out), and *)
(* the step that times a waiter out changes nothing of any other caller    *)
(* nor of the lock: the holder's body goes on to completion and its result *)
(* is returned.                                                            *)
(***************************************************************************)
C9_TimedOutNeverRuns ==
    \A c \in Callers :
        /\ pc[c] = "waiting" => now <= calledAt[c] + maxWaitTime
        /\ pc[c] = "timedout" => ~InSeq(startOrder, c)

C9_TimeoutStep ==
    \A c \in Callers :
        /\ pc[c] = "timedout" => pc'[c] = "timedout"
        /\ (pc[c] = "waiting" /\ pc'[c] = "timedout") =>
              /\ now >= calledAt[c] + maxWaitTime
              /\ \A d \in Callers \ {c} : pc'[d] = pc[d]
              /\ releaseCb' = releaseCb
              /\ isLocked' = isLocked
              /\ startOrder' = startOrder /\ doneOrder' = doneOrder
        /\ (pc[c] = "running" /\ pc'[c] # "running") =>
              pc'[c] \in {"returned", "threw"}

C9_WaitTimeout == []C9_TimedOutNeverRuns /\ [][C9_TimeoutStep]_vars

\* a waiter timed out while the holder was running, and the holder returned
C9_Witness ==
    \E c, d \in Callers :
        /\ pc[c] = "timedout" /\ pc[d] = "returned"
        /\ d < c
        /\ calledAt[c] + maxWaitTime > calledAt[d]

(***************************************************************************)
(* C10: on release the lock passes to the earliest caller still waiting,   *)
(* and with nobody waiting the mutex is unlocked: once every withLock call *)
(* has settled, isLockedNow() is false and getPendingCount() is 0.         *)
(***************************************************************************)
AllSettled == \A c \in Callers : pc[c] \notin {"waiting", "running"}

C10_SettledMeansUnlocked ==
    AllSettled => (~isLockedNow /\ getPendingCount = 0)

Started(c) == pc[c] \in {"running", "returned", "threw"}

(***************************************************************************)
(* C11: when the hold timer force-releases the mutex, the callers that are *)
(* queued at that moment fail and none of them runs its body: no caller    *)
(* ever runs a body with the release callback that forceRelease hands out. *)
(***************************************************************************)
C11_ForceReleaseFailsQueued ==
    \A c \in Callers : Started(c) => releaseCb[c] # "noop"

\* the body of c ends in this step
BodyEnds(c) == pc[c] = "running" /\ pc'[c] \in {"returned", "threw"}

(***************************************************************************)
(* C12: withLock releases the lock on every exit path: when the body of a  *)
(* caller returns or throws while no other caller is waiting, the mutex is *)
(* unlocked afterwards.                                                    *)
(***************************************************************************)
C12_Step ==
    \A c \in Callers :
        (BodyEnds(c) /\ \A d \in Callers \ {c} : pc[d] \notin {"waiting", "running"})
            => ~isLocked'

C12_ReleasedOnEveryExit == [][C12_Step]_vars

\* the part of C12 the code keeps: the body's end calls the release callback,
\* which unlocks the mutex when pendingResolvers is empty, and the result or
\* the error reaches the caller
C12_ReleaseCalledStep ==
    \A c \in Callers :
        (pc[c] = "running" /\ pc'[c] # "running") =>
            /\ pc'[c] \in {"returned", "threw"}
            /\ (releaseCb[c] # "noop" /\ pendingResolvers = <<>>) => ~isLocked'
            /\ releaseCb[c] = "timed" =>
                   \A t \in timers' : ~(t.kind = "hold" /\ t.of = c)

C12_ReleaseCalled == [][C12_ReleaseCalledStep]_vars

(***************************************************************************)
(* C13: a withLock call whose body holds the lock longer than lockTimeout  *)
(* is rejected: the body of a caller that took a free mutex never returns  *)
(* its result to the caller later than lockTimeout after lock().           *)
(***************************************************************************)
C13_Step ==
    \A c \in Callers :
        (/\ pc[c] = "running"
         /\ releaseCb[c] = "timed"
         /\ now > calledAt[c] + lockTimeout)
            => pc'[c] # "returned"

C13_LongHoldRejected == [][C13_Step]_vars

(* C24: a waiter whose wait-timeout has expired is no longer in the        *)
(* pending queue, so getPendingCount() does not count it and no release    *)
(* can hand the lock to it.                                                *)
C24_TimedOutLeavesQueue ==
    \A c \in Callers :
        pc[c] = "timedout" =>
            \A i \in 1..Len(pendingResolvers) : pendingResolvers[i].of # c

(* C25: every holder is covered by a hold-timeout, also one that got the   *)
(* lock by hand-off: while such a holder runs with the mutex locked, a     *)
(* hold timer is pending (forceRelease runs only from a hold timer).       *)
C25_HandOffHolderHasHoldTimer ==
    \A c \in Callers :
        (isLocked /\ pc[c] = "running" /\ releaseCb[c] = "plain") =>
            \E t \in timers : t.kind = "hold"

(***************************************************************************)
(*                     The token service (Spotify)                         *)
(*                                                                         *)
(* The service clock counts units of 5 minutes.  Waits far shorter than a  *)
(* unit (the 100 ms polls of waitForRefresh, the 60 s scheduler interval)  *)
(* are events that may happen at any time; a Fetcher call may take any     *)
(* time and may resolve or reject.                                         *)
(***************************************************************************)
Reqs == 1..NumReqs
StartupThread == NumReqs + 1
TickThread == NumReqs + 2
Threads == 1..(NumReqs + 2)
Cookies == 1..NumCookies

\* accessTokenExpirationTimestampMs - Date.now() of a token the Fetcher returns
TokenLifetimes == 2..MaxLifetime

(***************************************************************************)
(* A SpotifyToken: id stands for accessToken (the number of the Fetcher    *)
(* call that produced it), exp for accessTokenExpirationTimestampMs, ts    *)
(* for timestamp; ck is history, the sp_dc value it was fetched with (0:   *)
(* no cookie).  NoToken stands for null.                                   *)
(***************************************************************************)
NoToken == [id |-> 0, exp |-> 0, anon |-> TRUE, ck |-> 0, ts |-> 0,
            cached |-> FALSE, source |-> "none"]

\* no TokenTracker.getToken call was just made
NoTick == [fired |-> FALSE]
NoGet == [key |-> 0, had |-> FALSE, entry |-> NoToken, at |-> 0, tok |-> NoToken]

NoResult == [st |-> "none", tok |-> NoToken, at |-> 0]
TokenResult(tok) == [st |-> "token", tok |-> tok, at |-> now]
NullResult == [st |-> "null", tok |-> NoToken, at |-> now]
ErrorResult == [st |-> "error", tok |-> NoToken, at |-> now]
\* a function that returns its token or null
Returned(v) == IF v = NoToken THEN NullResult ELSE TokenResult(v)

\* Spotify.isTokenValid
isTokenValid(token) ==
    IF token = NoToken \/ token.id = 0 \/ token.exp = 0 THEN FALSE
    ELSE LET isExpired == token.exp <= now
             isTooOld == token.ts # 0 /\ (now - token.ts) > cacheTimeout
             isAboutToExpire == token.exp <= now + bufferTime
         IN  ~isExpired /\ ~isTooOld /\ ~isAboutToExpire

\* isTokenValid of a tracker as it would be without the refresh buffer
trackerTokenValidNoBuffer(token) ==
    IF token = NoToken \/ token.id = 0 \/ token.exp = 0 THEN FALSE
    ELSE token.exp > now

\* TokenTracker.isTokenValid and LavaSrcTracker.isTokenValid
trackerTokenValid(token) ==
    IF token = NoToken \/ token.id = 0 \/ token.exp = 0 THEN FALSE
    ELSE LET isExpired == token.exp <= now
             isAboutToExpire == token.exp <= now + refreshBufferMs
         IN  ~isExpired /\ ~isAboutToExpire

(***************************************************************************)
(* A JavaScript Map, as the sequence of its entries in insertion order.    *)
(***************************************************************************)
MapHas(m, k) == \E i \in 1..Len(m) : m[i].key = k
MapGet(m, k) ==
    IF MapHas(m, k) THEN m[CHOOSE i \in 1..Len(m) : m[i].key = k].val
    ELSE NoToken
MapSet(m, k, v) ==
    IF MapHas(m, k)
    THEN [i \in 1..Len(m) |-> IF m[i].key = k THEN [key |-> k, val |-> v]
                              ELSE m[i]]
    ELSE Append(m, [key |-> k, val |-> v])
MapDelete(m, k) == SelectSeq(m, LAMBDA e : e.key # k)

(***************************************************************************)
(* TokenTracker and LavaSrcTracker: tokens is the Map of stored tokens,    *)
(* refreshTimers the Map of timer handles, a set of [key, due, fired]: a   *)
(* handle whose timer has fired stays in the Map until it is deleted.      *)
(***************************************************************************)
EmptyTracker == [tokens |-> <<>>, refreshTimers |-> {}]

clearRefreshTimer(tr, key) ==
    [tr EXCEPT !.refreshTimers = {h \in @ : h.key # key}]

\* scheduleRefresh as it would be without its timeUntilRefresh <= 0 return
scheduleRefreshUnguarded(tr, key, token) ==
    [tr EXCEPT !.refreshTimers =
        {h \in @ : h.key # key}
        \cup {[key |-> key, due |-> token.exp - refreshBufferMs,
               fired |-> FALSE]}]

scheduleRefresh(tr, key, token) ==
    LET timeUntilRefresh == token.exp - now - refreshBufferMs
    IN  IF timeUntilRefresh > 0
        THEN [tr EXCEPT !.refreshTimers =
                 {h \in @ : h.key # key}
                 \cup {[key |-> key, due |-> now + timeUntilRefresh,
                        fired |-> FALSE]}]
        ELSE tr

\* removeToken as it would be without its clearRefreshTimer call
removeTokenKeepsTimer(tr, key) == [tr EXCEPT !.tokens = MapDelete(@, key)]

removeToken(tr, key) ==
    [clearRefreshTimer(tr, key) EXCEPT !.tokens = MapDelete(@, key)]

clearAll(tr) == EmptyTracker

\* storeToken as it would be if it scheduled a refresh for every token
storeTokenSchedulesAll(tr, key, token) ==
    scheduleRefresh([clearRefreshTimer(tr, key) EXCEPT
                         !.tokens = MapSet(@, key, token)], key, token)

\* TokenTracker.storeToken
storeToken(tr, key, token) ==
    LET tr1 == [clearRefreshTimer(tr, key) EXCEPT
                    !.tokens = MapSet(@, key, token)]
    IN  IF ~token.anon THEN scheduleRefresh(tr1, key, token) ELSE tr1

\* the keys of the first n entries in insertion order
RECURSIVE firstInserted(_, _)
firstInserted(m, n) ==
    IF n = 0 \/ m = <<>> THEN <<>>
    ELSE <<m[1].key>> \o firstInserted(Tail(m), n - 1)

\* LavaSrcTracker.cleanupCache: the keys of the first n entries when sorted
\* by ascending timestamp (the sort is stable: ties keep insertion order)
RECURSIVE oldestFirst(_, _)
oldestFirst(m, n) ==
    IF n = 0 \/ m = <<>> THEN <<>>
    ELSE LET i == CHOOSE i \in 1..Len(m) :
                      /\ \A j \in 1..Len(m) : m[i].val.ts <= m[j].val.ts
                      /\ \A j \in 1..(i - 1) : m[j].val.ts > m[i].val.ts
         IN  <<m[i].key>> \o oldestFirst(MapDelete(m, m[i].key), n - 1)

RECURSIVE removeAll(_, _)
removeAll(tr, keys) ==
    IF keys = <<>> THEN tr
    ELSE removeAll(removeToken(tr, Head(keys)), Tail(keys))

cleanupCache(tr) ==
    IF Len(tr.tokens) <= maxCacheSize THEN tr
    ELSE removeAll(tr, oldestFirst(tr.tokens, Len(tr.tokens) - maxCacheSize))

\* LavaSrcTracker.storeToken
lavaStoreToken(tr, key, token) ==
    LET tr1 == [clearRefreshTimer(tr, key) EXCEPT
                    !.tokens = MapSet(@, key, token)]
    IN  cleanupCache(IF ~token.anon THEN scheduleRefresh(tr1, key, token)
                     ELSE tr1)

\* LavaSrcTracker.convertToLavaSrcToken and formatForLavaSrc: copies with
\* timestamp: Date.now()
convertToLavaSrcToken(token) == [token EXCEPT !.ts = now]
formatForLavaSrc(token) == [token EXCEPT !.ts = now]

(***************************************************************************)
(* Callers of the service.  Each is a thread of control with a position:   *)
(*   idle       not called yet (the scheduler: between two ticks)          *)
(*   start      initializeService, before it calls getAnonymousToken       *)
(*   health     in recoverService, awaiting browser.healthCheck()          *)
(*   fetchAnon  in refreshAnonymousToken, awaiting browser.getToken()      *)
(*   fetchAuth  in getAuthenticatedToken, awaiting browser.getToken()      *)
(*   wait       in waitForRefresh                                          *)
(*   done       returned to its caller, with result res                    *)
(* kind is the entry point: "init" (initializeService), "tick"             *)
(* (checkAndRefresh), "anon" and "auth" (getToken without and with an      *)
(* sp_dc cookie ck), "force" (forceRefresh); via tells whether the request *)
(* came through LavaSrcTracker.getToken, and cached is that call's local.  *)
(* History: flight numbers the Fetcher call the thread started, joined the *)
(* one it waited for, failed names the key of its own Fetcher call that    *)
(* rejected and failTok the anonymous token the service held then; from is *)
(* the service state in which the thread started its anonymous refresh.    *)
(***************************************************************************)
NewThread(kind) ==
    [pc |-> "idle", kind |-> kind, ck |-> 0, via |-> "spotify", rec |-> FALSE,
     flight |-> 0, joined |-> 0, failed |-> "none", failTok |-> NoToken,
     from |-> "none",
     cached |-> NoToken, res |-> NoResult]

ServiceInit ==
    /\ serviceState = "initializing"
    /\ anonymousToken = NoToken
    /\ authenticatedToken = NoToken
    /\ isRefreshing = FALSE
    /\ errorCount = 0
    /\ schedulerTimer = 1
    /\ tokenTracker = EmptyTracker
    /\ lavaSrc = EmptyTracker
    /\ th = [t \in Threads |->
                IF t = StartupThread THEN [NewThread("init") EXCEPT !.pc = "start"]
                ELSE IF t = TickThread THEN NewThread("tick")
                ELSE NewThread("anon")]
    /\ cleanupPc = "idle"
    /\ fetchSeq = 0
    /\ fetchedOk = {}
    /\ lastTick = NoTick

\* the state of the service, as one value; lastTick describes the step just
\* taken, so every step but a scheduler tick leaves it empty
Svc ==
    [serviceState |-> serviceState, anonymousToken |-> anonymousToken,
     authenticatedToken |-> authenticatedToken, isRefreshing |-> isRefreshing,
     errorCount |-> errorCount, schedulerTimer |-> schedulerTimer,
     tokenTracker |-> tokenTracker, lavaSrc |-> lavaSrc, th |-> th,
     cleanupPc |-> cleanupPc, fetchSeq |-> fetchSeq, fetchedOk |-> fetchedOk,
     lastTick |-> NoTick]

InstallSvc(s) ==
    /\ serviceState' = s.serviceState
    /\ anonymousToken' = s.anonymousToken
    /\ authenticatedToken' = s.authenticatedToken
    /\ isRefreshing' = s.isRefreshing
    /\ errorCount' = s.errorCount
    /\ schedulerTimer' = s.schedulerTimer
    /\ tokenTracker' = s.tokenTracker
    /\ lavaSrc' = s.lavaSrc
    /\ th' = s.th
    /\ cleanupPc' = s.cleanupPc
    /\ fetchSeq' = s.fetchSeq
    /\ fetchedOk' = s.fetchedOk
    /\ lastTick' = s.lastTick
    /\ s.fetchSeq <= MaxFetches
    /\ UNCHANGED <<now, mutexOnly, cacheOnly, controllerOnly,
                   browserOnly>>

hasSpDcCookie(s, t) == s.th[t].ck # 0
tokenKey(s, t) == IF hasSpDcCookie(s, t) THEN "authenticated" ELSE "anonymous"

\* the thread's entry point returns to the outside
finish(s, t, res) == [s EXCEPT !.th[t].pc = "done", !.th[t].res = res]

\* LavaSrcTracker.getToken, from the return of tokenService.getToken on
lavaReturn(s, t, res) ==
    IF res.st = "token"
    THEN LET lavasrcToken == convertToLavaSrcToken(res.tok)
         IN  finish([s EXCEPT !.lavaSrc =
                         lavaStoreToken(@, tokenKey(s, t), lavasrcToken)],
                    t, TokenResult(formatForLavaSrc(lavasrcToken)))
    ELSE IF s.th[t].cached # NoToken
         THEN finish(s, t, TokenResult(formatForLavaSrc(s.th[t].cached)))
         ELSE finish(s, t, NullResult)

\* Spotify.getToken or Spotify.forceRefresh returns or throws
respond(s, t, res) ==
    IF s.th[t].via = "lavasrc" THEN lavaReturn(s, t, res)
    ELSE finish(s, t, res)

\* getAnonymousToken, refreshAnonymousToken or getAuthenticatedToken returns
\* v to initializeService, to checkAndRefresh or through getToken
returnTo(s, t, v) ==
    CASE s.th[t].kind = "init" ->
             [s EXCEPT !.serviceState = "ready", !.th[t].pc = "done"]
      [] s.th[t].kind = "tick" ->
             [s EXCEPT !.schedulerTimer = @ + 1, !.th[t].pc = "idle"]
      [] OTHER -> respond(s, t, Returned(v))

\* the Fetcher call that set isRefreshing: the latest one still in flight
currentFlight(s) ==
    LET inFlight == {s.th[u].flight : u \in {u \in Threads : s.th[u].pc = "fetchAnon"}}
    IN  IF inFlight = {} THEN 0
        ELSE CHOOSE f \in inFlight : \A g \in inFlight : g <= f

waitForRefresh(s, t) ==
    [s EXCEPT !.th[t].pc = "wait", !.th[t].joined = currentFlight(s)]

\* refreshAnonymousToken as it would be if checkAndRefresh armed the next
\* tick before awaiting it
refreshAnonymousTokenArmsNext(s, t) ==
    LET s1 == IF s.th[t].kind = "tick"
              THEN [s EXCEPT !.schedulerTimer = @ + 1] ELSE s
    IN  IF s1.isRefreshing THEN waitForRefresh(s1, t)
        ELSE [s1 EXCEPT !.isRefreshing = TRUE,
                        !.serviceState = "refreshing",
                        !.fetchSeq = @ + 1,
                        !.th[t].pc = "fetchAnon",
                        !.th[t].flight = s.fetchSeq + 1,
                        !.th[t].from = s.serviceState]

\* refreshAnonymousToken, up to its first await
refreshAnonymousToken(s, t) ==
    IF s.isRefreshing THEN waitForRefresh(s, t)
    ELSE [s EXCEPT !.isRefreshing = TRUE,
                   !.serviceState = "refreshing",
                   !.fetchSeq = @ + 1,
                   !.th[t].pc = "fetchAnon",
                   !.th[t].flight = s.fetchSeq + 1,
                   !.th[t].from = s.serviceState]

\* getAnonymousToken, up to its first await
getAnonymousToken(s, t) ==
    IF s.anonymousToken # NoToken /\ isTokenValid(s.anonymousToken)
    THEN LET cachedToken == [s.anonymousToken EXCEPT !.cached = TRUE,
                                                     !.source = "cached",
                                                     !.ts = now]
         IN  returnTo(s, t, cachedToken)
    ELSE IF s.isRefreshing THEN waitForRefresh(s, t)
    ELSE refreshAnonymousToken(s, t)

\* getAuthenticatedToken, up to its await
getAuthenticatedToken(s, t) ==
    [s EXCEPT !.fetchSeq = @ + 1,
              !.th[t].pc = "fetchAuth",
              !.th[t].flight = s.fetchSeq + 1]

\* getToken, lines 268-272
dispatch(s, t) ==
    IF hasSpDcCookie(s, t) THEN getAuthenticatedToken(s, t)
    ELSE getAnonymousToken(s, t)

\* getToken, its catch block
getTokenCatch(s, t) ==
    LET s1 == [s EXCEPT !.errorCount = @ + 1]
    IN  IF /\ ~hasSpDcCookie(s, t)
           /\ s.anonymousToken # NoToken
           /\ isTokenValid(s.anonymousToken)
        THEN respond(s1, t, TokenResult(s.anonymousToken))
        ELSE respond(s1, t, ErrorResult)

\* recoverService, from the return of refreshAnonymousToken on
recoverServiceResumes(s, t) ==
    IF s.anonymousToken # NoToken
    THEN dispatch([s EXCEPT !.serviceState = "ready", !.th[t].rec = FALSE], t)
    ELSE getTokenCatch([s EXCEPT !.serviceState = "error",
                                 !.th[t].rec = FALSE], t)

\* refreshAnonymousToken returns v to whoever awaited it
refreshReturns(s, t, v) ==
    IF s.th[t].rec THEN recoverServiceResumes(s, t) ELSE returnTo(s, t, v)

\* recoverService, up to its first await
recoverService(s, t) ==
    [s EXCEPT !.serviceState = "initializing",
              !.th[t].pc = "health",
              !.th[t].rec = TRUE]

\* Spotify.getToken, up to its first await
getToken(s, t) ==
    IF s.serviceState = "error" THEN recoverService(s, t) ELSE dispatch(s, t)

\* LavaSrcTracker.getToken, up to its await
lavaGetToken(s, t) ==
    LET cached == MapGet(s.lavaSrc.tokens, tokenKey(s, t))
    IN  IF cached # NoToken /\ trackerTokenValid(cached)
        THEN finish(s, t, TokenResult(formatForLavaSrc(cached)))
        ELSE getToken([s EXCEPT !.th[t].cached = cached], t)

(***************************************************************************)
(* The steps of the service.                                               *)
(***************************************************************************)
\* request r has not been made yet, and the requests before it have; cookie
\* values are interchangeable, so a request carries one that an earlier
\* request carried or the first unused one
Issued(r, ck) ==
    /\ th[r].pc = "idle"
    /\ ck = 0 \/ (ck - 1) \in {th[q].ck : q \in Reqs}
    /\ \A q \in Reqs : q < r => th[q].pc # "idle"

\* a client calls Spotify.getToken(cookies): ck = 0 without an sp_dc cookie
callGetToken(r, ck) ==
    /\ Issued(r, ck)
    /\ InstallSvc(getToken([Svc EXCEPT
           !.th[r].kind = IF ck = 0 THEN "anon" ELSE "auth",
           !.th[r].ck = ck], r))

\* a client calls LavaSrcTracker.getToken(cookies, context, tokenService)
callLavaSrcGetToken(r, ck) ==
    /\ Issued(r, ck)
    /\ InstallSvc(lavaGetToken([Svc EXCEPT
           !.th[r].kind = IF ck = 0 THEN "anon" ELSE "auth",
           !.th[r].ck = ck,
           !.th[r].via = "lavasrc"], r))

\* a client calls Spotify.forceRefresh()
forceRefresh(r) ==
    /\ Issued(r, 0)
    /\ InstallSvc(refreshAnonymousToken([Svc EXCEPT !.th[r].kind = "force"], r))

\* initializeService resumes after initializeProactiveRefresh
initializeService ==
    /\ th[StartupThread].pc = "start"
    /\ InstallSvc(getAnonymousToken(Svc, StartupThread))

\* the scheduler's timer fires: checkAndRefresh up to its await, or to its end
checkAndRefresh ==
    /\ schedulerTimer > 0
    /\ th[TickThread].pc = "idle"
    /\ LET s == [Svc EXCEPT
                    !.schedulerTimer = @ - 1,
                    !.lastTick =
                        [fired |-> TRUE,
                         state |-> serviceState,
                         stored |-> anonymousToken # NoToken,
                         due |-> /\ anonymousToken # NoToken
                                 /\ anonymousToken.exp - now
                                        <= proactiveRefreshBuffer,
                         started |-> th[StartupThread].pc = "done",
                         stopped |-> cleanupPc # "idle",
                         refreshing |-> isRefreshing,
                         requested |-> FALSE]]
           ask(t) == [t EXCEPT !.lastTick.requested = TRUE]
       IN  InstallSvc(
             IF /\ anonymousToken # NoToken
                /\ ~isRefreshing
                /\ serviceState = "ready"
             THEN LET timeUntilExpiry == anonymousToken.exp - now
                  IN  IF timeUntilExpiry <= proactiveRefreshBuffer
                      THEN refreshAnonymousToken(ask(s), TickThread)
                      ELSE returnTo(s, TickThread, NoToken)
             ELSE IF anonymousToken = NoToken /\ serviceState = "ready"
                  THEN refreshAnonymousToken(ask(s), TickThread)
                  ELSE returnTo(s, TickThread, NoToken))

\* recoverService: browser.healthCheck() (and the browser's replacement)
\* is over, refreshAnonymousToken is called
healthChecked(t) ==
    /\ th[t].pc = "health"
    /\ InstallSvc(refreshAnonymousToken(Svc, t))

\* the token a Fetcher call returns
Fetched(t, ttl, anon) ==
    [id |-> th[t].flight, exp |-> now + ttl, anon |-> anon, ck |-> th[t].ck,
     ts |-> now, cached |-> FALSE,
     source |-> IF th[t].ck = 0 THEN "anonymous" ELSE "authenticated"]

\* refreshAnonymousToken: browser.getToken() resolves
refreshResolves(t, ttl, anon) ==
    /\ th[t].pc = "fetchAnon"
    /\ LET token == Fetched(t, ttl, anon)
           s1 == IF token.anon
                 THEN [Svc EXCEPT
                         !.anonymousToken = token,
                         !.tokenTracker = storeToken(@, "anonymous", token),
                         !.serviceState = "ready",
                         !.fetchedOk = @ \cup {token.id}]
                 ELSE Svc
           s2 == [s1 EXCEPT !.isRefreshing = FALSE]
       IN  InstallSvc(refreshReturns(s2, t, token))

\* refreshAnonymousToken: browser.getToken() rejects
refreshRejects(t) ==
    /\ th[t].pc = "fetchAnon"
    /\ LET s1 == [Svc EXCEPT !.errorCount = @ + 1,
                             !.serviceState = "error",
                             !.isRefreshing = FALSE,
                             !.th[t].failed = "anonymous",
                             !.th[t].failTok = anonymousToken]
       IN  InstallSvc(refreshReturns(s1, t, NoToken))

\* getAuthenticatedToken: browser.getToken(cookies) resolves
authResolves(t, ttl, anon) ==
    /\ th[t].pc = "fetchAuth"
    /\ LET token == Fetched(t, ttl, anon)
           s1 == IF ~token.anon
                 THEN [Svc EXCEPT
                         !.authenticatedToken = token,
                         !.tokenTracker = storeToken(@, "authenticated", token)]
                 ELSE Svc
       IN  InstallSvc(returnTo(s1, t, token))

\* getAuthenticatedToken: browser.getToken(cookies) rejects
authRejects(t) ==
    /\ th[t].pc = "fetchAuth"
    /\ LET s1 == [Svc EXCEPT !.errorCount = @ + 1,
                             !.th[t].failed = "authenticated",
                             !.th[t].failTok = anonymousToken]
       IN  InstallSvc(returnTo(s1, t, NoToken))

\* waitForRefresh ends because a poll finds isRefreshing false
waitEnds(t) ==
    /\ th[t].pc = "wait"
    /\ ~isRefreshing
    /\ InstallSvc(refreshReturns(Svc, t, anonymousToken))

\* waitForRefresh ends after maxAttempts polls, the refresh still in flight
waitGivesUp(t) ==
    /\ th[t].pc = "wait"
    /\ isRefreshing
    /\ InstallSvc(refreshReturns(Svc, t, anonymousToken))

\* Spotify.cleanup, up to its await; clearTimeout cancels the timer that
\* proactiveRefreshTimer names, the last one armed, if it is pending
cleanup ==
    /\ cleanupPc = "idle"
    /\ InstallSvc([Svc EXCEPT !.serviceState = "shutdown",
                              !.schedulerTimer = IF @ > 0 THEN @ - 1 ELSE 0,
                              !.cleanupPc = "closing"])

\* Spotify.cleanup, after browser.close()
cleanupResumes ==
    /\ cleanupPc = "closing"
    /\ InstallSvc([Svc EXCEPT !.tokenTracker = clearAll(@),
                              !.anonymousToken = NoToken,
                              !.authenticatedToken = NoToken,
                              !.isRefreshing = FALSE,
                              !.cleanupPc = "done"])

Due(tr) == {h \in tr.refreshTimers : ~h.fired /\ h.due <= now}

\* TokenTracker.handleTokenRefresh, when a refresh timer fires
handleTokenRefresh(key) ==
    /\ \E h \in Due(tokenTracker) : h.key = key
    /\ InstallSvc([Svc EXCEPT !.tokenTracker = removeToken(@, key)])

\* LavaSrcTracker.handleTokenRefresh, when a refresh timer fires: the stored
\* token object is changed in place, so a caller that holds it sees the change
lavaHandleTokenRefresh(key) ==
    /\ \E h \in Due(lavaSrc) : h.key = key
    /\ LET token == MapGet(lavaSrc.tokens, key)
           expired == [token EXCEPT !.exp = now - 1]
       IN  InstallSvc([Svc EXCEPT
             !.lavaSrc.refreshTimers =
                 {IF h.key = key THEN [h EXCEPT !.fired = TRUE] ELSE h : h \in @},
             !.lavaSrc.tokens =
                 IF token # NoToken THEN MapSet(@, key, expired) ELSE @,
             !.th = [t \in Threads |->
                        IF token # NoToken /\ @[t].cached = token
                           /\ @[t].pc \notin {"idle", "done"}
                        THEN [@[t] EXCEPT !.cached = expired] ELSE @[t]]])

\* time passes, unless a refresh timer is due; initializeService's first
\* await and waitForRefresh (at most 30 polls of 100 ms) end within the unit
clockTick ==
    /\ now < MaxClock
    /\ Due(tokenTracker) = {} /\ Due(lavaSrc) = {}
    /\ \A t \in Threads : th[t].pc \notin {"start", "wait"}
    /\ now' = now + 1
    /\ UNCHANGED <<mutexOnly, serviceOnly, cacheOnly, controllerOnly,
                   browserOnly>>

(***************************************************************************)
(* The TokenController and the SpotifyBrowser as they are constructed.     *)
(* Each handle() call h is a thread of control: idle (not made yet),       *)
(* awaiting (the token service's promise) or done.  It records its query,  *)
(* its cache key, the status it set (0: setStatus was not called), the     *)
(* value it returned (res), whether it threw, and, as history, what the    *)
(* token service gave it (got).                                            *)
(***************************************************************************)
Handles == 1..NumHandles
NoEntry == [has |-> FALSE]
NoService == [st |-> "none"]
NewHandle ==
    [pc |-> "idle", query |-> "main", key |-> "anonymous", status |-> 0,
     res |-> NoResult, threw |-> FALSE, got |-> NoService]

ControllerInit ==
    /\ controllerErrorCount = 0
    /\ requestCount = 0
    /\ tokenCache = [k \in {"anonymous", "authenticated"} |-> NoEntry]
    /\ rq = [h \in Handles |-> NewHandle]

BrowserInit ==
    /\ isConnected = FALSE
    /\ phase = [c \in Callers |-> "body"]
    /\ parent = [c \in Callers |-> 0]

NextService ==
    \/ \E r \in Reqs : \E ck \in {0} \cup Cookies : callGetToken(r, ck)
    \/ \E r \in Reqs : \E ck \in {0} \cup Cookies : callLavaSrcGetToken(r, ck)
    \/ \E r \in Reqs : forceRefresh(r)
    \/ initializeService
    \/ checkAndRefresh
    \/ \E t \in Threads : healthChecked(t)
    \/ \E t \in Threads : \E ttl \in TokenLifetimes : \E anon \in BOOLEAN :
           refreshResolves(t, ttl, anon)
    \/ \E t \in Threads : refreshRejects(t)
    \/ \E t \in Threads : \E ttl \in TokenLifetimes : \E anon \in BOOLEAN :
           authResolves(t, ttl, anon)
    \/ \E t \in Threads : authRejects(t)
    \/ \E t \in Threads : waitEnds(t)
    \/ \E t \in Threads : waitGivesUp(t)
    \/ cleanup
    \/ cleanupResumes
    \/ \E key \in {"anonymous", "authenticated"} : handleTokenRefresh(key)
    \/ \E key \in {"anonymous", "authenticated"} : lavaHandleTokenRefresh(key)
    \/ clockTick

InitService ==
    /\ now = 0
    /\ MutexInit
    /\ ServiceInit
    /\ got = NoGet
    /\ ControllerInit
    /\ BrowserInit

SpecService == InitService /\ [][NextService]_vars

(***************************************************************************)
(* Properties of the token service.                                        *)
(***************************************************************************)
Fetching(pos) == {t \in Threads : th[t].pc = pos}
Answered(r) == th[r].pc = "done"

C1_AnonymousSingleFlight == Cardinality(Fetching("fetchAnon")) <= 1
C1_AuthenticatedSingleFlight == Cardinality(Fetching("fetchAuth")) <= 1

(* C1: at any time at most one Fetcher call is in flight for the anonymous *)
(* key and at most one for the authenticated key.                          *)
C1_SingleFlight == C1_AnonymousSingleFlight /\ C1_AuthenticatedSingleFlight

\* request r was an anonymous getToken that waited for Fetcher call
\* th[r].joined and made no Fetcher call of its own
JoinedOnly(r) ==
    /\ th[r].kind = "anon"
    /\ th[r].via = "spotify"
    /\ th[r].joined # 0
    /\ th[r].flight = 0

(* C2: before any shutdown, an anonymous getToken that found a refresh in  *)
(* flight and waited for it returns the token that this Fetcher call       *)
(* produced, whenever the call succeeds.                                   *)
C2_WaitersGetTheFetchedToken ==
    cleanupPc = "idle" =>
        \A r \in Reqs :
            (Answered(r) /\ JoinedOnly(r) /\ th[r].joined \in fetchedOk)
                => (th[r].res.st = "token" /\ th[r].res.tok.id = th[r].joined)

(* C3: a token returned by Spotify.getToken, Spotify.forceRefresh or       *)
(* LavaSrcTracker.getToken expires strictly after the time of the return.  *)
C3_NoExpiredTokenReturned ==
    \A r \in Reqs :
        (Answered(r) /\ th[r].res.st = "token")
            => th[r].res.tok.exp > th[r].res.at

(* C4: a request with an sp_dc cookie whose Fetcher call rejected returns  *)
(* no token.                                                               *)
C4_FailedAuthenticatedReturnsNoToken ==
    \A r \in Reqs :
        (Answered(r) /\ th[r].kind = "auth" /\ th[r].failed = "authenticated")
            => th[r].res.st # "token"

(* C5: an anonymous Spotify.getToken whose Fetcher call rejected returns   *)
(* the anonymous token the service held at that moment if there was one,   *)
(* and fails with an error (no token, no null) if there was none.          *)
C5_AnonymousFailureFallsBackOrThrows ==
    \A r \in Reqs :
        (/\ Answered(r)
         /\ th[r].kind = "anon"
         /\ th[r].via = "spotify"
         /\ th[r].failed = "anonymous")
            => IF th[r].failTok # NoToken
               THEN th[r].res.st = "token" /\ th[r].res.tok.id = th[r].failTok.id
               ELSE th[r].res.st = "error"

\* thread t's own anonymous Fetcher call ends in this step
RefreshEnds(t) == th[t].pc = "fetchAnon" /\ th'[t].pc # "fetchAnon"
RefreshFails(t) ==
    RefreshEnds(t) /\ th[t].failed = "none" /\ th'[t].failed = "anonymous"
RefreshStores(t) == RefreshEnds(t) /\ th[t].flight \in fetchedOk'

(* C17: when startup completes (before any shutdown), the state is ready   *)
(* if the startup fetch stored a token and error if the startup fetch      *)
(* failed.                                                                 *)
C17_Step ==
    (RefreshEnds(StartupThread) /\ cleanupPc = "idle") =>
        /\ RefreshStores(StartupThread) => serviceState' = "ready"
        /\ RefreshFails(StartupThread) => serviceState' = "error"

C17_StartupState == [][C17_Step]_vars

\* the half of C17 the code keeps
C17_ReadyAfterSuccessStep ==
    (RefreshEnds(StartupThread) /\ cleanupPc = "idle"
        /\ RefreshStores(StartupThread)) => serviceState' = "ready"

C17_ReadyAfterSuccess == [][C17_ReadyAfterSuccessStep]_vars

(* C18: an anonymous refresh started in state ready (outside startup and   *)
(* recovery, before any shutdown) moves the state to refreshing, and when  *)
(* it completes the state is ready again, whatever the Fetcher's outcome.  *)
C18_Step ==
    \A t \in Threads :
        /\ (th[t].pc # "fetchAnon" /\ th'[t].pc = "fetchAnon"
               /\ th'[t].from = "ready") => serviceState' = "refreshing"
        /\ (RefreshEnds(t) /\ th[t].from = "ready" /\ ~th[t].rec
               /\ cleanupPc = "idle") => serviceState' = "ready"

C18_ReadyRefreshingReady == [][C18_Step]_vars

(* C19: outside startup and recovery, a failed refresh puts the service    *)
(* into the error state only when the error count exceeds the threshold    *)
(* of 5.                                                                   *)
C19_Step ==
    \A t \in Threads :
        (/\ RefreshFails(t)
         /\ th[t].kind # "init" /\ ~th[t].rec
         /\ serviceState # "error" /\ serviceState' = "error")
            => errorCount' > 5

C19_ErrorOnlyPastThreshold == [][C19_Step]_vars

(* C20: when the anonymous refresh of a recovery cycle fails (before any   *)
(* shutdown), the cycle ends in state error and the caller that triggered  *)
(* it gets the error, even if an older anonymous token is still stored.    *)
C20_Step ==
    \A t \in Threads :
        (RefreshFails(t) /\ th[t].rec /\ cleanupPc = "idle") =>
            /\ serviceState' = "error"
            /\ th'[t].pc = "done"
            /\ th[t].via = "spotify" => th'[t].res.st = "error"

C20_RecoveryFailureIsError == [][C20_Step]_vars

(* C21: once cleanup has set the state to shutdown, the state stays        *)
(* shutdown whatever happens later.                                        *)
C21_ShutdownIsTerminal == cleanupPc # "idle" => serviceState = "shutdown"

(* C22: once cleanup has stopped the scheduler, no scheduler timer is      *)
(* pending (so no further tick can fire), also when cleanup was called     *)
(* while a tick's refresh was awaiting the Fetcher.                        *)
C22_NoTimerAfterCleanup == cleanupPc # "idle" => schedulerTimer = 0

(* C27: when a valid anonymous token is stored, a getToken call without an *)
(* sp_dc cookie returns at once a copy of it marked as cached: it starts   *)
(* no Fetcher call and waits for no refresh or recovery, in every state.   *)
C27_Step ==
    \A r \in Reqs :
        (/\ th[r].pc = "idle" /\ th'[r].pc # "idle"
         /\ th'[r].kind = "anon" /\ th'[r].via = "spotify"
         /\ anonymousToken # NoToken /\ isTokenValid(anonymousToken))
            => /\ th'[r].pc = "done"
               /\ th'[r].res.st = "token"
               /\ th'[r].res.tok.cached
               /\ th'[r].res.tok.id = anonymousToken.id
               /\ fetchSeq' = fetchSeq

C27_CachedFastPath == [][C27_Step]_vars

\* the cache-hit paths of the service (Spotify's fast path and the cached
\* branch of LavaSrcTracker.getToken): a request answered at once, with no
\* Fetcher call, gets a token that expires more than the buffer after now
C37_ServiceStep ==
    \A r \in Reqs :
        (/\ th[r].pc = "idle" /\ th'[r].pc = "done"
         /\ th'[r].res.st = "token" /\ fetchSeq' = fetchSeq)
            => th'[r].res.tok.exp > now + bufferTime

C37_ServiceHitsOutsideBuffer == [][C37_ServiceStep]_vars

\* the Fetcher call a forceRefresh call stands on: its own, or the one in
\* flight that it joined
FetchOf(r) == IF th[r].flight # 0 THEN th[r].flight ELSE th[r].joined

(* C38: forceRefresh never answers from the cache: the token it returns    *)
(* was produced by the Fetcher call of this forceRefresh call (its own, or *)
(* the in-flight refresh it joined), and it returns no token when that     *)
(* fetch failed.                                                           *)
C38_ForceRefreshReturnsFetched ==
    \A r \in Reqs :
        (th[r].kind = "force" /\ th[r].pc = "done" /\ th[r].res.st = "token")
            => th[r].res.tok.id = FetchOf(r)

(* C39: the proactive scheduler is a single loop: at most one scheduler    *)
(* timer is pending at any time, and none is pending while a tick runs     *)
(* (its refresh, and any recovery it started, has not completed), so ticks *)
(* never overlap.                                                          *)
C39_SingleSchedulerLoop ==
    /\ schedulerTimer <= 1
    /\ schedulerTimer > 0 => th[TickThread].pc = "idle"

\* the refresh that a tick started is in flight and no timer is pending
C39_Witness ==
    /\ th[TickThread].pc = "fetchAnon"
    /\ schedulerTimer = 0
    /\ cleanupPc = "idle"

\* the entry of tracker tr under a class key, if any, is of that class
ClassKeysMatch(tr) ==
    /\ MapHas(tr.tokens, "anonymous") => MapGet(tr.tokens, "anonymous").anon
    /\ MapHas(tr.tokens, "authenticated")
           => ~MapGet(tr.tokens, "authenticated").anon

\* the slots and the TokenTracker of the Spotify service
C40_ServiceSlotsMatch ==
    /\ anonymousToken # NoToken => anonymousToken.anon
    /\ authenticatedToken # NoToken => ~authenticatedToken.anon
    /\ ClassKeysMatch(tokenTracker)

(* C40: a token stored under the anonymous slot or key always has          *)
(* isAnonymous = true and one stored under the authenticated slot or key   *)
(* always has isAnonymous = false, whatever the Fetcher returns.           *)
C40_SlotHoldsItsClass == C40_ServiceSlotsMatch /\ ClassKeysMatch(lavaSrc)

(* C28: when a recovery cycle succeeds (its own refresh stored a token),   *)
(* the service's error counter is zero afterwards.                         *)
C28_Step ==
    \A t \in Threads :
        (th[t].rec /\ RefreshStores(t) /\ cleanupPc = "idle")
            => errorCount' = 0

C28_RecoveryResetsErrorCount == [][C28_Step]_vars

(***************************************************************************)
(* The service left to itself: startup and the scheduler run, no request   *)
(* arrives.  Every Fetcher call ends (the browser's fetch has a deadline), *)
(* timers fire and time passes, so a step that can be taken is taken.      *)
(***************************************************************************)
NextScheduler ==
    \/ initializeService
    \/ checkAndRefresh
    \/ \E t \in Threads : \E ttl \in TokenLifetimes : \E anon \in BOOLEAN :
           refreshResolves(t, ttl, anon)
    \/ \E t \in Threads : refreshRejects(t)
    \/ clockTick

SpecScheduler == InitService /\ [][NextScheduler]_vars /\ WF_vars(NextScheduler)

(* C29: with no request arriving, a service in the error state is          *)
(* eventually taken into recovery (error to initializing) by the           *)
(* scheduler.                                                              *)
C29_TickStartsRecovery ==
    (serviceState = "error") ~> (serviceState = "initializing")

(* C30: a scheduler tick that fires after startup and before shutdown,     *)
(* with no refresh in flight, requests an anonymous refresh if no          *)
(* anonymous token is stored or if the stored one expires within the       *)
(* proactive buffer, and requests none otherwise.                          *)
C30_TickRefreshesWhenDue ==
    (/\ lastTick.fired /\ lastTick.started
     /\ ~lastTick.stopped /\ ~lastTick.refreshing) =>
        (lastTick.requested <=> (~lastTick.stored \/ lastTick.due))

\* the half of C30 the code keeps: a tick requests no refresh of a stored
\* token that is not yet within the proactive buffer
C30_NoEarlyRefresh ==
    (lastTick.fired /\ lastTick.stored /\ ~lastTick.due) => ~lastTick.requested

\* the refresh timers of tracker tr that have not fired
Pending(tr) == {h \in tr.refreshTimers : ~h.fired}

(* C31: once cleanup has completed, the service holds no token (neither    *)
(* slot, no TokenTracker entry) and no TokenTracker refresh timer is       *)
(* pending, whatever happens later.                                        *)
C31_NothingCachedAfterShutdown ==
    cleanupPc = "done" =>
        /\ anonymousToken = NoToken
        /\ authenticatedToken = NoToken
        /\ tokenTracker.tokens = <<>>
        /\ Pending(tokenTracker) = {}

(* C6: a token returned to a request that carries an sp_dc cookie was      *)
(* fetched with that request's cookie value.                               *)
C6_TokenFetchedWithOwnCookies ==
    \A r \in Reqs :
        (Answered(r) /\ th[r].ck # 0 /\ th[r].res.st = "token")
            => th[r].res.tok.ck = th[r].ck


(***************************************************************************)
(*          TokenTracker and LavaSrcTracker, called on their own           *)
(*                                                                         *)
(* Both classes are exported and their storeToken, getToken (TokenTracker) *)
(* removeToken and clearAll are public.  A tracker is checked from the     *)
(* state it is in after Prefill storeToken calls at time 0 with keys       *)
(* 1..Prefill (keys are numbered), which fill it to maxCacheSize; the      *)
(* calls that follow name the first NumOldKeys of these keys and           *)
(* NumNewKeys further ones.                                                *)
(***************************************************************************)
Prefill == maxCacheSize
OldKeys == 1..NumOldKeys
NewKeys == (Prefill + 1)..(Prefill + NumNewKeys)
CacheKeys == OldKeys \cup NewKeys
CacheLifetimes == 0..MaxLifetime

\* a token handed to storeToken: fetched (and converted) now, ttl to live
CacheToken(ttl, anon) ==
    [id |-> 1, exp |-> now + ttl, anon |-> anon, ck |-> 0, ts |-> now,
     cached |-> FALSE,
     source |-> IF anon THEN "anonymous" ELSE "authenticated"]

\* a tracker after storeToken(1, t), ..., storeToken(n, t) of anonymous
\* tokens: n entries in this order and no refresh timer
Prefilled(n) ==
    [tokens |-> [i \in 1..n |-> [key |-> i,
                                  val |-> CacheToken(MaxLifetime, TRUE)]],
     refreshTimers |-> {}]

\* the variables of the service, which stands idle beside a tracker
IdleService ==
    /\ serviceState = "initializing"
    /\ anonymousToken = NoToken
    /\ authenticatedToken = NoToken
    /\ isRefreshing = FALSE
    /\ errorCount = 0
    /\ schedulerTimer = 0
    /\ th = [t \in Threads |-> NewThread("anon")]
    /\ cleanupPc = "idle"
    /\ fetchSeq = 0
    /\ fetchedOk = {}
    /\ lastTick = NoTick

serviceRest == <<serviceState, anonymousToken, authenticatedToken,
                 isRefreshing, errorCount, schedulerTimer, th, cleanupPc,
                 fetchSeq, fetchedOk, lastTick>>

\* getToken as it would be if it deleted a stale entry without removeToken
trackerGetTokenLeavesTimer(tr, key) ==
    LET token == MapGet(tr.tokens, key)
    IN  IF ~MapHas(tr.tokens, key) THEN [tr |-> tr, tok |-> NoToken]
        ELSE IF trackerTokenValid(token) THEN [tr |-> tr, tok |-> token]
        ELSE [tr |-> removeTokenKeepsTimer(tr, key), tok |-> NoToken]

\* TokenTracker.getToken: the tracker afterwards and the value returned
trackerGetToken(tr, key) ==
    LET token == MapGet(tr.tokens, key)
    IN  IF ~MapHas(tr.tokens, key) THEN [tr |-> tr, tok |-> NoToken]
        ELSE IF trackerTokenValid(token) THEN [tr |-> tr, tok |-> token]
        ELSE [tr |-> removeToken(tr, key), tok |-> NoToken]

ttStoreToken(key, ttl, anon) ==
    /\ tokenTracker' = storeToken(tokenTracker, key, CacheToken(ttl, anon))
    /\ got' = NoGet
    /\ UNCHANGED <<now, mutexOnly, serviceRest, lavaSrc, controllerOnly,
                   browserOnly>>

ttGetToken(key) ==
    /\ LET r == trackerGetToken(tokenTracker, key)
       IN  /\ tokenTracker' = r.tr
           /\ got' = [key |-> key, had |-> MapHas(tokenTracker.tokens, key),
                      entry |-> MapGet(tokenTracker.tokens, key),
                      at |-> now, tok |-> r.tok]
    /\ UNCHANGED <<now, mutexOnly, serviceRest, lavaSrc, controllerOnly,
                   browserOnly>>

ttRemoveToken(key) ==
    /\ tokenTracker' = removeToken(tokenTracker, key)
    /\ got' = NoGet
    /\ UNCHANGED <<now, mutexOnly, serviceRest, lavaSrc, controllerOnly,
                   browserOnly>>

ttClearAll ==
    /\ tokenTracker' = clearAll(tokenTracker)
    /\ got' = NoGet
    /\ UNCHANGED <<now, mutexOnly, serviceRest, lavaSrc, controllerOnly,
                   browserOnly>>

\* time passes, unless a refresh timer is due
cacheTick ==
    /\ now < MaxClock
    /\ Due(tokenTracker) = {} /\ Due(lavaSrc) = {}
    /\ now' = now + 1
    /\ got' = NoGet
    /\ UNCHANGED <<mutexOnly, serviceOnly, controllerOnly, browserOnly>>

NextTokenTracker ==
    \/ \E key \in CacheKeys : \E ttl \in CacheLifetimes : \E anon \in BOOLEAN :
           ttStoreToken(key, ttl, anon)
    \/ \E key \in CacheKeys : ttGetToken(key)
    \/ \E key \in CacheKeys : ttRemoveToken(key)
    \/ ttClearAll
    \/ \E key \in CacheKeys : handleTokenRefresh(key)
    \/ cacheTick

InitTokenTracker ==
    /\ now = 0
    /\ MutexInit
    /\ IdleService
    /\ tokenTracker = Prefilled(Prefill)
    /\ lavaSrc = EmptyTracker
    /\ got = NoGet
    /\ ControllerInit
    /\ BrowserInit

SpecTokenTracker == InitTokenTracker /\ [][NextTokenTracker]_vars

C14_TokenTrackerSizeBounded == Len(tokenTracker.tokens) <= maxCacheSize
C14_LavaSrcSizeBounded == Len(lavaSrc.tokens) <= maxCacheSize

(* C14: after any sequence of storeToken calls with any keys, a token      *)
(* cache (a TokenTracker, a LavaSrcTracker) holds at most maxCacheSize     *)
(* entries.                                                                *)
C14_CacheSizeBounded == C14_TokenTrackerSizeBounded /\ C14_LavaSrcSizeBounded

(* C16: TokenTracker.getToken(key) returns the stored token exactly when   *)
(* an entry exists for the key and its expiry time minus the 5-minute      *)
(* buffer is strictly greater than now, and null in every other case.      *)
C16_GetReturnsExactlyValid ==
    got # NoGet =>
        got.tok = IF got.had /\ got.entry.exp - refreshBufferMs > got.at
                  THEN got.entry
                  ELSE NoToken

\* a getToken call returned a stored token that was one unit from the buffer
C16_Witness ==
    /\ got.had
    /\ got.tok = got.entry
    /\ got.entry.exp - refreshBufferMs = got.at + 1


(***************************************************************************)
(* A LavaSrcTracker on its own: it starts with Prefill anonymous entries.  *)
(***************************************************************************)
lvStoreToken(key, ttl, anon) ==
    /\ lavaSrc' = lavaStoreToken(lavaSrc, key,
                                 convertToLavaSrcToken(CacheToken(ttl, anon)))
    /\ UNCHANGED <<now, mutexOnly, serviceRest, tokenTracker, got,
                   controllerOnly, browserOnly>>

lvRemoveToken(key) ==
    /\ lavaSrc' = removeToken(lavaSrc, key)
    /\ UNCHANGED <<now, mutexOnly, serviceRest, tokenTracker, got,
                   controllerOnly, browserOnly>>

lvClearAll ==
    /\ lavaSrc' = clearAll(lavaSrc)
    /\ UNCHANGED <<now, mutexOnly, serviceRest, tokenTracker, got,
                   controllerOnly, browserOnly>>

NextLavaSrcTracker ==
    \/ \E key \in CacheKeys : \E ttl \in CacheLifetimes : \E anon \in BOOLEAN :
           lvStoreToken(key, ttl, anon)
    \/ \E key \in CacheKeys : lvRemoveToken(key)
    \/ lvClearAll
    \/ \E key \in CacheKeys : lavaHandleTokenRefresh(key)
    \/ cacheTick

InitLavaSrcTracker ==
    /\ now = 0
    /\ MutexInit
    /\ IdleService
    /\ tokenTracker = EmptyTracker
    /\ lavaSrc = Prefilled(Prefill)
    /\ got = NoGet
    /\ ControllerInit
    /\ BrowserInit

SpecLavaSrcTracker == InitLavaSrcTracker /\ [][NextLavaSrcTracker]_vars

Keys(m) == {m[i].key : i \in 1..Len(m)}

\* every pending refresh timer of tracker tr belongs to a stored key, was
\* armed for the token stored under it, and is the key's only pending timer
TimersMatch(tr) ==
    \A h \in Pending(tr) :
        /\ MapHas(tr.tokens, h.key)
        /\ ~MapGet(tr.tokens, h.key).anon
        /\ h.due = MapGet(tr.tokens, h.key).exp - refreshBufferMs
        /\ \A g \in Pending(tr) : g.key = h.key => g = h

\* the pending refresh timers of key k in tracker tr
PendingOf(tr, k) == {h \in Pending(tr) : h.key = k}

TimerPerEntry(tr) ==
    \A i \in 1..Len(tr.tokens) :
        IF tr.tokens[i].val.anon
        THEN PendingOf(tr, tr.tokens[i].key) = {}
        ELSE Cardinality(PendingOf(tr, tr.tokens[i].key)) = 1

(* C33: in every reachable state of a TokenTracker and of a                *)
(* LavaSrcTracker, each stored non-anonymous entry has exactly one pending *)
(* refresh timer and each stored anonymous entry has none.                 *)
C33_TimerPerNonAnonymousEntry ==
    TimerPerEntry(tokenTracker) /\ TimerPerEntry(lavaSrc)

\* C33 as the code keeps it: a stored anonymous entry has no pending refresh
\* timer; a stored non-anonymous entry has exactly one while its refresh
\* instant (expiry minus the buffer) is still ahead, none once that instant
\* is behind (it had passed when the token was stored, or the timer has
\* fired), and never more than one
TimerWhileRefreshAhead(tr) ==
    \A i \in 1..Len(tr.tokens) :
        LET e == tr.tokens[i].val
            n == Cardinality(PendingOf(tr, tr.tokens[i].key))
        IN  /\ n <= 1
            /\ e.anon => n = 0
            /\ ~e.anon /\ e.exp - refreshBufferMs > now => n = 1
            /\ ~e.anon /\ e.exp - refreshBufferMs < now => n = 0

C33_TimerWhileRefreshAhead ==
    TimerWhileRefreshAhead(tokenTracker) /\ TimerWhileRefreshAhead(lavaSrc)

\* a TokenTracker holds a non-anonymous entry with its pending timer beside
\* a non-anonymous entry, stored inside the buffer, that has none
C33_Witness ==
    \E i, j \in 1..Len(tokenTracker.tokens) :
        /\ ~tokenTracker.tokens[i].val.anon
        /\ ~tokenTracker.tokens[j].val.anon
        /\ Cardinality(PendingOf(tokenTracker, tokenTracker.tokens[i].key)) = 1
        /\ PendingOf(tokenTracker, tokenTracker.tokens[j].key) = {}

\* in the step of tracker tr to tr2, key k got a new non-anonymous entry
Stored(tr, tr2, k) ==
    /\ MapHas(tr2.tokens, k)
    /\ MapGet(tr.tokens, k) # MapGet(tr2.tokens, k)
    /\ ~MapGet(tr2.tokens, k).anon

\* after such a step the key's pending timers are the single timer due at
\* expiry minus the buffer when that instant is ahead, and otherwise none,
\* and the entry is not valid for a get
StoreArms(tr, tr2, k) ==
    LET e == MapGet(tr2.tokens, k)
        refreshAt == e.exp - refreshBufferMs
    IN  Stored(tr, tr2, k) =>
            IF refreshAt > now
            THEN PendingOf(tr2, k) =
                     {[key |-> k, due |-> refreshAt, fired |-> FALSE]}
            ELSE PendingOf(tr2, k) = {} /\ ~trackerTokenValid(e)

C34_Step ==
    \A k \in CacheKeys :
        /\ StoreArms(tokenTracker, tokenTracker', k)
        /\ StoreArms(lavaSrc, lavaSrc', k)
        /\ Stored(tokenTracker, tokenTracker', k)
           /\ MapGet(tokenTracker'.tokens, k).exp - refreshBufferMs <= now
           => trackerGetToken(tokenTracker', k).tok = NoToken

(* C34: storing a non-anonymous token in a TokenTracker or a               *)
(* LavaSrcTracker arms a refresh timer due at the token's expiry minus the *)
(* 5-minute buffer exactly when that instant is in the future; when it is  *)
(* not, no timer is armed for the key and the next get of the key misses.  *)
C34_StoreArmsTimerWhenAhead == [][C34_Step]_vars

\* a getToken call missed on a non-anonymous entry that was stored inside
\* the buffer, while another non-anonymous entry has its timer pending
C34_Witness ==
    /\ got # NoGet
    /\ got.had
    /\ ~got.entry.anon
    /\ got.entry.exp - refreshBufferMs <= got.entry.ts
    /\ got.tok = NoToken
    /\ Pending(tokenTracker) # {}

\* a step that records a new getToken call is that call
C35_Step ==
    got' # NoGet /\ got' # got =>
        LET k == got'.key
            stale == got'.had /\ got'.entry.exp - refreshBufferMs <= now
        IN  IF stale
            THEN /\ tokenTracker'.tokens =
                        SelectSeq(tokenTracker.tokens, LAMBDA x : x.key # k)
                 /\ tokenTracker'.refreshTimers =
                        tokenTracker.refreshTimers
                            \ {h \in tokenTracker.refreshTimers : h.key = k}
            ELSE tokenTracker' = tokenTracker

(* C35: a TokenTracker.getToken that finds an entry inside the buffer      *)
(* window removes that entry and cancels its refresh timer; one that hits  *)
(* or finds no entry leaves the stored tokens and the timers unchanged;    *)
(* the entries and timers of other keys are never touched by a get.        *)
C35_GetRemovesOnlyStaleEntry == [][C35_Step]_vars

\* a getToken call found a non-anonymous entry inside the buffer while the
\* timer armed at its store had not fired, beside a timer of another key:
\* the entry and its timer are gone and the other timer is pending
C35_Witness ==
    /\ got # NoGet
    /\ got.had
    /\ ~got.entry.anon
    /\ got.entry.exp - refreshBufferMs > got.entry.ts
    /\ got.tok = NoToken
    /\ ~MapHas(tokenTracker.tokens, got.key)
    /\ PendingOf(tokenTracker, got.key) = {}
    /\ Pending(tokenTracker) # {}

\* in the step of tracker tr to tr2, an entry that differs from the one its
\* key had is a token object stored in this step (storing stamps it with
\* timestamp: Date.now()), not the old object with a field changed
OnlyStoresChange(tr, tr2) ==
    \A k \in CacheKeys :
        MapHas(tr2.tokens, k) /\ MapGet(tr2.tokens, k) # MapGet(tr.tokens, k)
            => MapGet(tr2.tokens, k).ts = now

(* C36: a token object is never modified after it has been stored in a     *)
(* cache: no operation and no timer callback changes a field (such as the  *)
(* expiry time) of a stored token in place.                                *)
C36_StoredTokenImmutable ==
    [][OnlyStoresChange(tokenTracker, tokenTracker')
       /\ OnlyStoresChange(lavaSrc, lavaSrc')]_vars

(* C32: in a TokenTracker and in a LavaSrcTracker, after any stores,       *)
(* removals, evictions, clear-alls and timer firings, every pending        *)
(* refresh timer belongs to a key that has an entry, was armed for the     *)
(* token now stored under that key, and is that key's only pending timer.  *)
C32_NoDanglingTimer == TimersMatch(tokenTracker) /\ TimersMatch(lavaSrc)

\* a refresh timer is pending in a full LavaSrcTracker that has evicted an
\* entry of a key that had one
C32_Witness ==
    /\ Pending(lavaSrc) # {}
    /\ Len(lavaSrc.tokens) = maxCacheSize
    /\ \E k \in OldKeys : ~MapHas(lavaSrc.tokens, k)

(* C15: when a storeToken pushes the LavaSrcTracker over maxCacheSize, the *)
(* entries removed are those with the earliest stored-at times (no removed *)
(* entry was stored later than one that is kept), just as many as bring    *)
(* the size back to the maximum, the kept entries are unchanged, and no    *)
(* refresh timer of a removed key is left.                                 *)
C15_Step ==
    LET before == lavaSrc.tokens
        after == lavaSrc'.tokens
        removed == Keys(before) \ Keys(after)
    IN  (Len(after) >= Len(before) /\ Keys(after) \ Keys(before) # {}) =>
            /\ Len(after) <= maxCacheSize
            /\ Cardinality(removed) = Len(before) + 1 - Len(after)
            /\ Len(before) < maxCacheSize => removed = {}
            /\ \A r \in removed : \A k \in Keys(after) :
                   MapGet(before, r).ts <= MapGet(after, k).ts
            /\ \A k \in Keys(after) \cap Keys(before) :
                   MapGet(after, k) = MapGet(before, k)
            /\ \A h \in lavaSrc'.refreshTimers : h.key \notin removed

C15_EvictsOldestFirst == [][C15_Step]_vars

\* the cache is full after an eviction that removed the oldest entry still
\* there (key NumOldKeys + 1) and kept an entry that was stored again later
C15_Witness ==
    /\ Len(lavaSrc.tokens) = maxCacheSize
    /\ ~MapHas(lavaSrc.tokens, NumOldKeys + 1)
    /\ \E k \in OldKeys : MapHas(lavaSrc.tokens, k)

(***************************************************************************)
(* TokenController.handle.  The token service is the controller's          *)
(* environment: each call of it returns a token, returns null or throws.   *)
(***************************************************************************)
Queries == {"main", "refresh", "force", "debug", "metrics"}
Messages == {"Service error", "Timeout"}
\* what a call may throw: an Error with a message, or another value
Thrown == [isError : {TRUE}, message : Messages]
              \cup {[isError |-> FALSE, message |-> ""]}
\* expires_in of the token the service returns: 0 stands for a missing one
ExpiresIn == 0..MaxLifetime

\* the state of the controller, as one value
Ctl ==
    [controllerErrorCount |-> controllerErrorCount,
     requestCount |-> requestCount, tokenCache |-> tokenCache, rq |-> rq]

InstallCtl(c) ==
    /\ controllerErrorCount' = c.controllerErrorCount
    /\ requestCount' = c.requestCount
    /\ tokenCache' = c.tokenCache
    /\ rq' = c.rq
    /\ UNCHANGED <<now, mutexOnly, serviceOnly, cacheOnly, browserOnly>>

\* ErrorMiddleware.createErrorResponse
createErrorResponse(message, code, status) ==
    [success |-> FALSE, error |-> message, code |-> code]

\* ErrorMiddleware.handleAsyncError: the message is
\* `Error in ${context}: ${errorMessage}`
handleAsyncError(error, context) ==
    LET errorMessage == IF error.isError THEN error.message
                        ELSE "Unknown async error"
    IN  createErrorResponse([context |-> context, text |-> errorMessage],
                            "UNKNOWN", 500)

\* handle returns value v
handleReturns(c, h, v) == [c EXCEPT !.rq[h].pc = "done", !.rq[h].res = v]

\* handle without its try/catch: the error leaves handle
handleRethrows(c, h, error) ==
    [c EXCEPT !.rq[h].pc = "done", !.rq[h].threw = TRUE]

\* the catch block of handle
handleCatch(c, h, error) ==
    handleReturns([c EXCEPT !.controllerErrorCount = @ + 1,
                            !.rq[h].status = 500],
                  h, handleAsyncError(error, "TokenController"))

\* the 503 answer of handle, handleMainTokenRequest and handleTokenRefresh
unavailable(c, h, text) ==
    handleReturns([c EXCEPT !.rq[h].status = 503], h,
                  createErrorResponse([context |-> "", text |-> text],
                                      "TOKEN_FETCH_FAILED", 503))

\* what handleMainTokenRequest and handleTokenRefresh put in tokenCache
cacheEntry(token) ==
    [has |-> TRUE, token |-> token,
     expires |-> IF token.expires_in # 0 THEN now + token.expires_in
                 ELSE now + defaultCacheTime]

\* createLavaSrcResponse
createLavaSrcResponse(token) == [token EXCEPT !.token_type = "Bearer"]

\* the token the service returns to call h
ServiceToken(h, e) ==
    [id |-> h, expires_in |-> e, token_type |-> "none"]

\* handle is called with ?debug=true or ?metrics=true: getStatus() or
\* getMetrics() returns or throws
handleStatus(h, query, error) ==
    /\ rq[h].pc = "idle"
    /\ query \in {"debug", "metrics"}
    /\ LET c == [Ctl EXCEPT !.requestCount = @ + 1, !.rq[h].query = query]
       IN  InstallCtl(
             IF error = NoService
             THEN handleReturns([c EXCEPT !.rq[h].got = [st |-> "status"]],
                                h, [success |-> TRUE])
             ELSE handleCatch([c EXCEPT !.rq[h].got =
                                   [st |-> "throw", error |-> error]],
                              h, error))

\* handle is called for a token, up to its await
handleCalled(h, query, key) ==
    /\ rq[h].pc = "idle"
    /\ query \in {"main", "refresh", "force"}
    /\ LET c == [Ctl EXCEPT !.requestCount = @ + 1,
                            !.rq[h].query = query,
                            !.rq[h].key = key]
           cached == tokenCache[key]
       IN  InstallCtl(
             CASE query = "refresh" ->
                      [c EXCEPT !.tokenCache[key] = NoEntry,
                                !.rq[h].pc = "awaiting"]
               [] query = "force" -> [c EXCEPT !.rq[h].pc = "awaiting"]
               [] OTHER ->
                      IF cached.has /\ cached.expires > now
                      THEN handleReturns(c, h, cached.token)
                      ELSE [c EXCEPT !.rq[h].pc = "awaiting"])

\* the token service returns a token
serviceReturns(h, e) ==
    /\ rq[h].pc = "awaiting"
    /\ LET token == ServiceToken(h, e)
           c == [Ctl EXCEPT !.rq[h].got = [st |-> "token"]]
       IN  InstallCtl(
             IF rq[h].query = "force"
             THEN handleReturns(c, h, createLavaSrcResponse(token))
             ELSE handleReturns(
                      [c EXCEPT !.tokenCache[rq[h].key] = cacheEntry(token)],
                      h, token))

\* the token service returns null
serviceReturnsNull(h) ==
    /\ rq[h].pc = "awaiting"
    /\ LET c == [Ctl EXCEPT !.rq[h].got = [st |-> "null"]]
       IN  InstallCtl(
             CASE rq[h].query = "force" ->
                      unavailable(c, h, "Force refresh failed - service temporarily unavailable")
               [] rq[h].query = "refresh" ->
                      unavailable(c, h, "Token refresh failed - service temporarily unavailable")
               [] OTHER ->
                      unavailable(c, h, "Token service temporarily unavailable"))

\* the token service throws
serviceThrows(h, error) ==
    /\ rq[h].pc = "awaiting"
    /\ InstallCtl(handleCatch([Ctl EXCEPT !.rq[h].got =
                                   [st |-> "throw", error |-> error]],
                              h, error))

\* time passes
controllerTick ==
    /\ now < MaxClock
    /\ now' = now + 1
    /\ UNCHANGED <<mutexOnly, serviceOnly, cacheOnly, controllerOnly,
                   browserOnly>>

NextController ==
    \/ \E h \in Handles : \E query \in {"debug", "metrics"} :
           \E error \in Thrown \cup {NoService} : handleStatus(h, query, error)
    \/ \E h \in Handles : \E query \in {"main", "refresh", "force"} :
           \E key \in {"anonymous", "authenticated"} :
               handleCalled(h, query, key)
    \/ \E h \in Handles : \E e \in ExpiresIn : serviceReturns(h, e)
    \/ \E h \in Handles : serviceReturnsNull(h)
    \/ \E h \in Handles : \E error \in Thrown : serviceThrows(h, error)
    \/ controllerTick

InitController ==
    /\ now = 0
    /\ MutexInit
    /\ IdleService
    /\ tokenTracker = EmptyTracker
    /\ lavaSrc = EmptyTracker
    /\ got = NoGet
    /\ ControllerInit
    /\ BrowserInit

SpecController == InitController /\ [][NextController]_vars

\* call h of handle ends in this step
HandleEnds(h) == rq[h].pc # "done" /\ rq'[h].pc = "done"

(* C23: handle never throws; when the token service throws (an Error),     *)
(* handle sets status 500, increments errorCount and returns an error      *)
(* response that carries the error's message; when the service returns no  *)
(* token, handle sets status 503, returns code TOKEN_FETCH_FAILED and      *)
(* leaves its cache as it was.                                             *)
C23_Step ==
    \A h \in Handles :
        HandleEnds(h) =>
            /\ ~rq'[h].threw
            /\ rq'[h].got.st = "throw" =>
                   /\ rq'[h].status = 500
                   /\ controllerErrorCount' = controllerErrorCount + 1
                   /\ ~rq'[h].res.success
                   /\ rq'[h].got.error.isError =>
                          rq'[h].res.error.text = rq'[h].got.error.message
            /\ rq'[h].got.st = "null" =>
                   /\ rq'[h].status = 503
                   /\ rq'[h].res.code = "TOKEN_FETCH_FAILED"
                   /\ tokenCache' = tokenCache
                   /\ controllerErrorCount' = controllerErrorCount

C23_HandleNeverThrows == [][C23_Step]_vars

\* one call ended after the service threw, another after it returned null
C23_Witness ==
    \E h, g \in Handles :
        /\ rq[h].pc = "done" /\ rq[h].got.st = "throw"
        /\ rq[h].got.error.isError /\ rq[h].status = 500
        /\ rq[g].pc = "done" /\ rq[g].got.st = "null" /\ rq[g].status = 503

\* call h of handleMainTokenRequest ends on its cache: it made no call of
\* the token service
CacheHit(h) ==
    /\ HandleEnds(h)
    /\ rq'[h].query = "main"
    /\ rq'[h].got = NoService
    /\ rq'[h].res = tokenCache[rq'[h].key].token

C37_Step ==
    \A h \in Handles :
        (CacheHit(h) /\ rq'[h].res.expires_in > bufferTime)
            => tokenCache[rq'[h].key].expires - now > bufferTime

(* C37: no cache-hit path returns a token whose expiry lies within 5       *)
(* minutes of the current time; here the TokenController's own cache: a    *)
(* token that handleMainTokenRequest returns from tokenCache expires more  *)
(* than the buffer after now (the token was outside the buffer when it was *)
(* cached: its expires_in was more than the buffer).                       *)
C37_CacheHitOutsideBuffer == [][C37_Step]_vars

(***************************************************************************)
(* SpotifyBrowser.launch: every call is a withLock on the browser's mutex  *)
(* (new MutexLock(30000, 60000)), so a call of launch() from outside is    *)
(* lock(c) above.  phase tells where the body of a running call stands:    *)
(*   body       before the test of browser, context and isConnected        *)
(*   launching  awaiting playwright.chromium.launch and newContext         *)
(*   nested     awaiting the launch() it called itself                     *)
(***************************************************************************)
\* lock() called for caller c on mutex m from inside another handler
acquire(m, c) ==
    IF m.isLocked
    THEN [m EXCEPT !.timers = @ \cup {WaitTimer(c, now + maxWaitTime)},
                   !.pendingResolvers = Append(@, Wrapper(c)),
                   !.pc[c] = "waiting"]
    ELSE [m EXCEPT !.isLocked = TRUE,
                   !.lockStartTime = now,
                   !.timers = @ \cup {HoldTimer(c, now + lockTimeout)},
                   !.releaseCb[c] = "timed",
                   !.pc[c] = "running",
                   !.startOrder = Append(@, c)]

\* the next launch() call to be made
NextCaller == CHOOSE d \in Callers :
                  pc[d] = "idle" /\ \A e \in Callers : e < d => pc[e] # "idle"

\* the body of launch() runs up to its first await or to its end; alive is
\* what browser.isConnected() answers (context.pages() throwing counts as
\* not alive)
launchBody(c, alive) ==
    /\ pc[c] = "running"
    /\ phase[c] = "body"
    /\ IF ~isConnected
       THEN /\ phase' = [phase EXCEPT ![c] = "launching"]
            /\ UNCHANGED <<mutexOnly, isConnected, parent>>
       ELSE IF alive
       THEN /\ Install([release(Here, c) EXCEPT !.pc[c] = "returned"])
            /\ doneOrder' = Append(doneOrder, c)
            /\ UNCHANGED <<calledAt, browserOnly>>
       ELSE /\ \E d \in Callers : pc[d] = "idle"
            /\ isConnected' = FALSE
            /\ Install(acquire(Here, NextCaller))
            /\ calledAt' = [calledAt EXCEPT ![NextCaller] = now]
            /\ parent' = [parent EXCEPT ![NextCaller] = c]
            /\ phase' = [phase EXCEPT ![c] = "nested"]
            /\ UNCHANGED doneOrder
    /\ UNCHANGED <<now, serviceOnly, cacheOnly, controllerOnly>>

\* playwright launched the browser and the context: the body returns them
chromiumLaunches(c) ==
    /\ pc[c] = "running"
    /\ phase[c] = "launching"
    /\ isConnected' = TRUE
    /\ Install([release(Here, c) EXCEPT !.pc[c] = "returned"])
    /\ doneOrder' = Append(doneOrder, c)
    /\ UNCHANGED <<now, calledAt, phase, parent, serviceOnly, cacheOnly,
                   controllerOnly>>

\* playwright failed: the catch block clears the fields and throws
chromiumFails(c) ==
    /\ pc[c] = "running"
    /\ phase[c] = "launching"
    /\ isConnected' = FALSE
    /\ Install([release(Here, c) EXCEPT !.pc[c] = "threw"])
    /\ doneOrder' = Append(doneOrder, c)
    /\ UNCHANGED <<now, calledAt, phase, parent, serviceOnly, cacheOnly,
                   controllerOnly>>

\* the launch() that the body of c called has settled: c's body returns
\* what it returned, or throws what it threw
nestedSettles(c) ==
    /\ pc[c] = "running"
    /\ phase[c] = "nested"
    /\ \E d \in Callers :
           /\ parent[d] = c
           /\ pc[d] \in {"returned", "threw", "timedout"}
           /\ Install([release(Here, c) EXCEPT
                  !.pc[c] = IF pc[d] = "returned" THEN "returned" ELSE "threw"])
    /\ doneOrder' = Append(doneOrder, c)
    /\ UNCHANGED <<now, calledAt, browserOnly, serviceOnly, cacheOnly,
                   controllerOnly>>

NextBrowser ==
    \/ \E c \in Callers : lock(c)
    \/ \E c \in Callers : \E alive \in BOOLEAN : launchBody(c, alive)
    \/ \E c \in Callers : chromiumLaunches(c)
    \/ \E c \in Callers : chromiumFails(c)
    \/ \E c \in Callers : nestedSettles(c)
    \/ \E c \in Callers : waitTimeout(c)
    \/ \E c \in Callers : holdTimeout(c)
    \/ tick

InitBrowser ==
    /\ now = 0
    /\ MutexInit
    /\ ServiceInit
    /\ got = NoGet
    /\ ControllerInit
    /\ BrowserInit

SpecBrowser == InitBrowser /\ [][NextBrowser]_vars

(* C26: no launch() is called from inside the body of a launch() that      *)
(* holds the browser's mutex: no call of the mutex's lock() is made by     *)
(* code running inside withLock of that mutex.                             *)
C26_NoReentrantLaunch == \A d \in Callers : parent[d] = 0

NextMutex ==
    \/ \E c \in Callers : lock(c)
    \/ \E c \in Callers : waitTimeout(c)
    \/ \E c \in Callers : holdTimeout(c)
    \/ \E c \in Callers : bodyReturns(c)
    \/ \E c \in Callers : bodyThrows(c)
    \/ tick

InitMutex ==
    /\ now = 0
    /\ MutexInit
    /\ ServiceInit
    /\ got = NoGet
    /\ ControllerInit
    /\ BrowserInit

SpecMutex == InitMutex /\ [][NextMutex]_vars

====
